---------------------------- MODULE Spec2Model ----------------------------
(***************************************************************************)
(* A model of the hangman solver of src/main.py.                           *)
(*                                                                         *)
(* A word is a sequence of one-character strings, a word list a sequence   *)
(* of words.  Python indices are zero-based: index i of the program is     *)
(* position i + 1 of a TLA+ sequence.                                      *)
(***************************************************************************)
EXTENDS Integers, Sequences, FiniteSets, TLC

VARIABLES
    vocabulary_file,  \* the lines of vocabulary.txt, as stored on disk
    pc,               \* where play_hangman stands
    prompt,           \* the prompt the pending get_input call shows
    vocabulary,       \* the list read_vocabuary_file returned
    word,             \* the secret word the human entered
    words,            \* play_hangman's candidate list
    masked_word,      \* the masked word
    game_over,        \* "None" or the game-over message
    wrong_guesses,    \* the wrong-guess counter
    letter,           \* the letter guessed in the current turn
    indices,          \* the last accepted feedback
    screen,           \* what print_screen showed last
    turns,            \* history: number of completed turns
    guessed           \* history: the <<letter, indices>> of every turn

vars == <<vocabulary_file, pc, prompt, vocabulary, word, words, masked_word,
          game_over, wrong_guesses, letter, indices, screen, turns, guessed>>

-----------------------------------------------------------------------------
(* Bounds of the explored inputs.                                          *)

\* most lines a vocabulary file has after its opening lines
MaxLines == 3
\* most tokens a reply to the indices prompt has
MaxReplyLen == 2
\* most words of a word list handed to most_common_letter on its own
MaxFnWords == 2
\* longest word and longest masked word handed to it
MaxFnWordLen == 2

\* The opening lines of a vocabulary file: a file starts with the first k
\* lines, 0 <= k <= 6, of one of two lists, so that up to six guesses can
\* be wrong.  The words of the first list share no letter with the other
\* words of a file.
OpeningLines ==
    << <<"c", "c", "\n">>,
       <<"d", "d", "\n">>,
       <<"e", "e", "\n">>,
       <<"f", "f", "\n">>,
       <<"g", "g", "\n">>,
       <<"h", "h", "\n">> >>

\* The words of the second list share their first letter with words of the
\* rest of a file, so that guesses can be wrong after a letter is revealed.
SharedOpeningLines ==
    << <<"a", "c", "\n">>,
       <<"a", "d", "\n">>,
       <<"a", "e", "\n">>,
       <<"a", "f", "\n">>,
       <<"a", "g", "\n">>,
       <<"a", "h", "\n">> >>

\* The lines the rest of a vocabulary file is made of, in any order and any
\* number of times: a blank line and three words of two letters.
FileLines ==
    { <<"\n">>,
      <<"a", "a", "\n">>,
      <<"A", "b", " ", "\n">>,
      <<"b", "a">> }

SeqsUpTo(S, n) == UNION { [1..k -> S] : k \in 0..n }

Files ==
    { SubSeq(o, 1, k) \o t :
        o \in {OpeningLines, SharedOpeningLines},
        k \in 0..Len(OpeningLines), t \in SeqsUpTo(FileLines, MaxLines) }

\* The letters the function-level specification draws its words from.
FnLetters == {"a", "b"}

-----------------------------------------------------------------------------
(* Helpers.                                                                *)

Range(s) == { s[i] : i \in 1..Len(s) }

Front(s) == SubSeq(s, 1, Len(s) - 1)

Last(s) == s[Len(s)]

None == "None"

Placeholder == "_"

-----------------------------------------------------------------------------
(* The drawings: HANGMEN[k] shows k - 1 body parts.                        *)

HANGMEN == <<0, 1, 2, 3, 4, 5, 6>>

-----------------------------------------------------------------------------
(* read_vocabuary_file: line.rstrip().lower() for every line.              *)

Whitespace == {" ", "\n", "\t"}

RECURSIVE rstrip(_)
rstrip(line) ==
    IF line # <<>> /\ Last(line) \in Whitespace
    THEN rstrip(Front(line))
    ELSE line

lowerChar(c) ==
    CASE c = "A" -> "a"
      [] c = "B" -> "b"
      [] c = "C" -> "c"
      [] OTHER -> c

lower(s) == [i \in 1..Len(s) |-> lowerChar(s[i])]

read_vocabuary_file(file) ==
    [i \in 1..Len(file) |-> lower(rstrip(file[i]))]

-----------------------------------------------------------------------------
(* get_char_frequency: a Counter, kept as the sequence of its              *)
(* <<letter, count>> entries in insertion order.                           *)

RECURSIVE Flatten(_)
Flatten(ws) ==
    IF ws = <<>> THEN <<>> ELSE Head(ws) \o Flatten(Tail(ws))

CounterAdd(counts, c) ==
    IF \E k \in 1..Len(counts) : counts[k][1] = c
    THEN [k \in 1..Len(counts) |->
            IF counts[k][1] = c THEN <<c, counts[k][2] + 1>> ELSE counts[k]]
    ELSE Append(counts, <<c, 1>>)

RECURSIVE CounterOf(_)
CounterOf(stream) ==
    IF stream = <<>> THEN <<>>
    ELSE CounterAdd(CounterOf(Front(stream)), Last(stream))

get_char_frequency(ws) == CounterOf(Flatten(ws))

\* counts.pop(c, None)
CounterPop(counts, c) == SelectSeq(counts, LAMBDA e : e[1] # c)

\* The loop popping only the first character of the masked word.
PopAll_first_only(counts, masked) ==
    IF masked = <<>> THEN counts ELSE CounterPop(counts, Head(masked))

\* for c in masked_word: counts.pop(c, None)
RECURSIVE PopAll(_, _)
PopAll(counts, masked) ==
    IF masked = <<>> THEN counts
    ELSE PopAll(CounterPop(counts, Head(masked)), Tail(masked))

\* An unstable sort: an entry goes before the entries of equal count.
InsertByCount_unstable(done, e) ==
    LET n == Cardinality({ k \in 1..Len(done) : done[k][2] > e[2] })
    IN  SubSeq(done, 1, n) \o <<e>> \o SubSeq(done, n + 1, Len(done))

\* Counter.most_common(): sorted(items, key = count, reverse = True), a
\* stable sort, so entries of equal count keep their insertion order.
InsertByCount(done, e) ==
    LET n == Cardinality({ k \in 1..Len(done) : done[k][2] >= e[2] })
    IN  SubSeq(done, 1, n) \o <<e>> \o SubSeq(done, n + 1, Len(done))

RECURSIVE most_common(_)
most_common(counts) ==
    IF counts = <<>> THEN <<>>
    ELSE InsertByCount(most_common(Front(counts)), Last(counts))

\* most_common_letter without the loop that pops the revealed letters.
RemainingCounts_unpopped(ws, masked) == get_char_frequency(ws)

\* The Counter most_common_letter takes its answer from.
RemainingCounts(ws, masked) == PopAll(get_char_frequency(ws), masked)

\* most_common_letter raises IndexError when that Counter is empty.
most_common_letter(ws, masked) ==
    most_common(RemainingCounts(ws, masked))[1][1]

-----------------------------------------------------------------------------
(* The filters.                                                            *)

filter_by_word_size(ws, size) ==
    SelectSeq(ws, LAMBDA w : Len(w) = size)

\* filter_by_excluded_letter that drops only the first word with the letter.
RECURSIVE filter_by_excluded_letter_first(_, _)
filter_by_excluded_letter_first(ws, l) ==
    IF ws = <<>> THEN <<>>
    ELSE IF l \in Range(Head(ws)) THEN Tail(ws)
    ELSE <<Head(ws)>> \o filter_by_excluded_letter_first(Tail(ws), l)

\* filter_by_excluded_letter with its test inverted (letter in w).
filter_by_excluded_letter_inverted(ws, l) ==
    SelectSeq(ws, LAMBDA w : l \in Range(w))

filter_by_excluded_letter(ws, l) ==
    SelectSeq(ws, LAMBDA w : l \notin Range(w))

\* filter_by_known_letter written as a nested comprehension,
\* [w for w in words for i in indices if w[i] == letter]: a word comes
\* once for every index that holds the letter.
RECURSIVE filter_by_known_letter_per_index(_, _, _)
filter_by_known_letter_per_index(ws, l, ind) ==
    IF ws = <<>> THEN <<>>
    ELSE LET w == Head(ws)
             hits == SelectSeq(ind, LAMBDA i : w[i + 1] = l)
         IN  [k \in 1..Len(hits) |-> w]
                 \o filter_by_known_letter_per_index(Tail(ws), l, ind)

\* filter_by_known_letter that also drops a word with the letter at an
\* index that is not given.
filter_by_known_letter_exact(ws, l, ind) ==
    SelectSeq(ws, LAMBDA w :
        \A i \in 1..Len(w) :
            (w[i] = l) <=> (\E k \in 1..Len(ind) : ind[k] + 1 = i))

\* filter_by_known_letter with any(...) for all(...).
filter_by_known_letter_any(ws, l, ind) ==
    SelectSeq(ws, LAMBDA w : \E k \in 1..Len(ind) : w[ind[k] + 1] = l)

filter_by_known_letter(ws, l, ind) ==
    SelectSeq(ws, LAMBDA w : \A k \in 1..Len(ind) : w[ind[k] + 1] = l)

-----------------------------------------------------------------------------
(* parse_ints: sorted(map(int, reply.split())).  A reply is kept as the    *)
(* sequence of its whitespace-separated tokens.                            *)

Tokens == {"0", "1", "x"}

\* int(token) raises ValueError on a token that is no number.
IntRaises(tok) == tok \notin {"0", "1"}

int(tok) ==
    CASE tok = "0" -> 0
      [] tok = "1" -> 1

InsertAscending(done, n) ==
    LET k == Cardinality({ j \in 1..Len(done) : done[j] <= n })
    IN  SubSeq(done, 1, k) \o <<n>> \o SubSeq(done, k + 1, Len(done))

RECURSIVE sorted(_)
sorted(ns) ==
    IF ns = <<>> THEN <<>>
    ELSE InsertAscending(sorted(Front(ns)), Last(ns))

\* parse_ints raises when int does.
ParseRaises(reply) == \E k \in 1..Len(reply) : IntRaises(reply[k])

parse_ints(reply) == sorted([k \in 1..Len(reply) |-> int(reply[k])])

IndexReplies == SeqsUpTo(Tokens, MaxReplyLen)

-----------------------------------------------------------------------------
(* get_input.                                                              *)

InvalidPrompt == "Invalid input. Try again"

WordPrompt == "Please enter a word which is in the vocabulary"

IndicesPrompt == "If the word contains [letter], enter its indices. Else hit ENTER"

\* get_input with no validation at all (validate = lambda x: True).
Validates_anything(value, choices) == TRUE

\* The validation get_input prepares: membership in choices when choices is
\* truthy (a non-empty list), else the caller's validate, else none.
Validates(value, choices) ==
    IF choices # <<>> THEN value \in Range(choices) ELSE TRUE

\* get_input(convert = parse_ints, choices = [expected]) returns on this
\* reply: the conversion does not raise and the value is the expected one.
IndicesValid(reply, expected) ==
    IF ParseRaises(reply) THEN FALSE
    ELSE Validates(parse_ints(reply), <<expected>>)

\* The replies tried at the word prompt: every word a vocabulary can hold
\* and one word that no vocabulary holds.
WordReplies ==
    Range(read_vocabuary_file(OpeningLines \o SharedOpeningLines))
        \cup { lower(rstrip(l)) : l \in FileLines }
        \cup { <<"b", "b">> }

-----------------------------------------------------------------------------
(* play_hangman.                                                           *)

\* print_screen: the drawing, the masked word and the message shown; the
\* drawing is -1 when HANGMEN[wrong_guesses] is an index error.
print_screen(masked, wrong, message) ==
    [hangman |-> IF wrong + 1 \in DOMAIN HANGMEN THEN HANGMEN[wrong + 1]
                 ELSE -1,
     word    |-> masked,
     message |-> message]

\* expected_indices = [i for i, c in enumerate(word) if c == letter]
RECURSIVE IndicesOf(_, _)
IndicesOf(w, l) ==
    IF w = <<>> THEN <<>>
    ELSE IF Last(w) = l THEN Append(IndicesOf(Front(w), l), Len(w) - 1)
         ELSE IndicesOf(Front(w), l)

\* The reveal with the indices taken as one-based positions.
Reveal_one_based(masked, l, ind) ==
    [i \in 1..Len(masked) |->
        IF \E k \in 1..Len(ind) : ind[k] = i THEN l ELSE masked[i]]

\* for i in indices: masked_word[i] = letter
Reveal(masked, l, ind) ==
    [i \in 1..Len(masked) |->
        IF \E k \in 1..Len(ind) : ind[k] + 1 = i THEN l ELSE masked[i]]

GameOverMessage == "GAME OVER!"

FoundMessage == "I found your word!"

\* The check for game over with its two tests in the other order.
CheckGameOver_solved_first(wrong, ws) ==
    IF Len(ws) = 1 THEN FoundMessage
    ELSE IF wrong >= Len(HANGMEN) - 1 THEN GameOverMessage
    ELSE None

\* The check for game over with len(words) < 1 for len(words) == 1.
CheckGameOver_below_one(wrong, ws) ==
    IF wrong >= Len(HANGMEN) - 1 THEN GameOverMessage
    ELSE IF Len(ws) < 1 THEN FoundMessage
    ELSE None

\* The check for game over with > for >=.
CheckGameOver_above_max(wrong, ws) ==
    IF wrong > Len(HANGMEN) - 1 THEN GameOverMessage
    ELSE IF Len(ws) = 1 THEN FoundMessage
    ELSE None

\* The check for game over at the end of a turn.
CheckGameOver(wrong, ws) ==
    IF wrong >= Len(HANGMEN) - 1 THEN GameOverMessage
    ELSE IF Len(ws) = 1 THEN FoundMessage
    ELSE None

\* The candidate list after a reply.
FilterWords(ws, l, ind) ==
    IF ind # <<>> THEN filter_by_known_letter(ws, l, ind)
    ELSE filter_by_excluded_letter(ws, l)

\* The counter incremented on every reply, outside the else branch.
CountWrong_every_turn(wrong, ind) == wrong + 1

\* The wrong-guess counter after a reply.
CountWrong(wrong, ind) ==
    IF ind # <<>> THEN wrong ELSE wrong + 1

\* The masked word after a reply that reveals nothing.
RevealOrKeep(masked, l, ind) ==
    IF ind # <<>> THEN Reveal(masked, l, ind) ELSE masked

\* The masked word left as it is when the word is found.
ShownWord_not_overwritten(over, ws, masked) == masked

\* The masked word overwritten whenever the game is over with one word left.
ShownWord_when_one_left(over, ws, masked) ==
    IF over # None /\ Len(ws) = 1 THEN ws[1] ELSE masked

\* The masked word after the check for game over: masked_word = words[0]
\* when the word is found.
ShownWord(over, ws, masked) ==
    IF over = FoundMessage THEN ws[1] ELSE masked

\* The loop of play_hangman run to its end on truthful replies: the
\* game-over message, or "IndexError" when most_common_letter raises.
RECURSIVE PlayLoop(_, _, _, _)
PlayLoop(secret, ws, masked, wrong) ==
    IF RemainingCounts(ws, masked) = <<>> THEN "IndexError"
    ELSE LET l       == most_common_letter(ws, masked)
             ind     == IndicesOf(secret, l)
             ws2     == FilterWords(ws, l, ind)
             masked2 == RevealOrKeep(masked, l, ind)
             wrong2  == CountWrong(wrong, ind)
             over    == CheckGameOver(wrong2, ws2)
         IN  IF over = None THEN PlayLoop(secret, ws2, masked2, wrong2)
             ELSE over

\* play_hangman on a vocabulary and a secret word, from the set-up on.
PlayOutcome(vocab, secret) ==
    PlayLoop(secret, filter_by_word_size(vocab, Len(secret)),
             [i \in 1..Len(secret) |-> Placeholder], 0)

Init ==
    /\ vocabulary_file \in Files
    /\ pc = "read"
    /\ prompt = None
    /\ vocabulary = <<>>
    /\ word = <<>>
    /\ words = <<>>
    /\ masked_word = <<>>
    /\ game_over = None
    /\ wrong_guesses = 0
    /\ letter = None
    /\ indices = <<>>
    /\ screen = <<>>
    /\ turns = 0
    /\ guessed = <<>>

\* words = read_vocabuary_file('vocabulary.txt'), up to the first prompt.
ReadVocabulary ==
    /\ pc = "read"
    /\ vocabulary' = read_vocabuary_file(vocabulary_file)
    /\ words' = read_vocabuary_file(vocabulary_file)
    /\ prompt' = WordPrompt
    /\ pc' = "ask_word"
    /\ UNCHANGED <<vocabulary_file, word, masked_word, game_over,
                   wrong_guesses, letter, indices, screen, turns,
                   guessed>>

\* get_input returns the reply: the set-up of the game, up to the loop.
AcceptWord(reply) ==
    /\ pc = "ask_word"
    /\ Validates(reply, words)
    /\ word' = reply
    /\ words' = filter_by_word_size(words, Len(reply))
    /\ masked_word' = [i \in 1..Len(reply) |-> Placeholder]
    /\ game_over' = None
    /\ wrong_guesses' = 0
    /\ screen' = print_screen([i \in 1..Len(reply) |-> Placeholder], 0, None)
    /\ prompt' = None
    /\ pc' = "guess"
    /\ UNCHANGED <<vocabulary_file, vocabulary, letter, indices, turns,
                   guessed>>

\* get_input rejects a reply and prompts again.
EnterBadWord ==
    /\ pc = "ask_word"
    /\ ~(\A reply \in WordReplies : Validates(reply, words))
    /\ prompt' = InvalidPrompt
    /\ UNCHANGED <<vocabulary_file, pc, vocabulary, word, words, masked_word,
                   game_over, wrong_guesses, letter, indices, screen, turns,
                   guessed>>

\* The head of the loop: the next letter and the prompt for its indices.
Guess ==
    /\ pc = "guess"
    /\ RemainingCounts(words, masked_word) # <<>>
    /\ letter' = most_common_letter(words, masked_word)
    /\ prompt' = IndicesPrompt
    /\ pc' = "ask_indices"
    /\ UNCHANGED <<vocabulary_file, vocabulary, word, words, masked_word,
                   game_over, wrong_guesses, indices, screen, turns,
                   guessed>>

\* counts.most_common()[0] raises IndexError: play_hangman aborts.
GuessFails ==
    /\ pc = "guess"
    /\ RemainingCounts(words, masked_word) = <<>>
    /\ pc' = "IndexError"
    /\ UNCHANGED <<vocabulary_file, prompt, vocabulary, word, words,
                   masked_word, game_over, wrong_guesses, letter, indices,
                   screen, turns,
                   guessed>>

\* get_input returns the parsed reply: the rest of the turn.
AcceptIndices(reply) ==
    /\ pc = "ask_indices"
    /\ IndicesValid(reply, IndicesOf(word, letter))
    /\ LET ind    == parse_ints(reply)
           ws     == FilterWords(words, letter, ind)
           masked == RevealOrKeep(masked_word, letter, ind)
           wrong  == CountWrong(wrong_guesses, ind)
           over   == CheckGameOver(wrong, ws)
           shown  == ShownWord(over, ws, masked)
       IN  /\ indices' = ind
           /\ words' = ws
           /\ wrong_guesses' = wrong
           /\ game_over' = over
           /\ masked_word' = shown
           /\ screen' = print_screen(shown, wrong, over)
           /\ pc' = IF over = None THEN "guess" ELSE "done"
    /\ prompt' = None
    /\ turns' = turns + 1
    /\ guessed' = Append(guessed, <<letter, parse_ints(reply)>>)
    /\ UNCHANGED <<vocabulary_file, vocabulary, word, letter>>

\* get_input rejects a reply (parse_ints raised, or the value is not the
\* expected one) and prompts again.
EnterBadIndices ==
    /\ pc = "ask_indices"
    /\ ~(\A reply \in IndexReplies :
            IndicesValid(reply, IndicesOf(word, letter)))
    /\ prompt' = InvalidPrompt
    /\ UNCHANGED <<vocabulary_file, pc, vocabulary, word, words, masked_word,
                   game_over, wrong_guesses, letter, indices, screen, turns,
                   guessed>>

EnterWord == \E reply \in WordReplies : AcceptWord(reply)

EnterIndices == \E reply \in IndexReplies : AcceptIndices(reply)

Next ==
    \/ ReadVocabulary
    \/ EnterWord
    \/ EnterBadWord
    \/ Guess
    \/ GuessFails
    \/ EnterIndices
    \/ EnterBadIndices

Spec == Init /\ [][Next]_vars

-----------------------------------------------------------------------------
(* most_common_letter on its own: the function applied to every word list *)
(* and masked word within the bounds, and to the lists and masked words of *)
(* the game on the vocabulary cat, car, can, cap.                          *)

FnWords == SeqsUpTo(FnLetters, MaxFnWordLen)

FnMasks == SeqsUpTo(FnLetters \cup {Placeholder}, MaxFnWordLen)

CatWords ==
    << <<"c", "a", "t">>, <<"c", "a", "r">>, <<"c", "a", "n">>,
       <<"c", "a", "p">> >>

CatMasks ==
    { <<"_", "_", "_">>, <<"c", "_", "_">>, <<"c", "a", "_">>,
      <<"c", "a", "t">> }

GuessInit ==
    /\ \/ /\ words \in SeqsUpTo(FnWords, MaxFnWords)
          /\ masked_word \in FnMasks
       \/ /\ words = CatWords
          /\ masked_word \in CatMasks
    /\ pc = "call"
    /\ vocabulary_file = <<>>
    /\ prompt = None
    /\ vocabulary = <<>>
    /\ word = <<>>
    /\ game_over = None
    /\ wrong_guesses = 0
    /\ letter = None
    /\ indices = <<>>
    /\ screen = <<>>
    /\ turns = 0
    /\ guessed = <<>>

\* most_common_letter(words, masked_word) returns.
MostCommonLetterReturns ==
    /\ pc = "call"
    /\ RemainingCounts(words, masked_word) # <<>>
    /\ letter' = most_common_letter(words, masked_word)
    /\ pc' = "returned"
    /\ UNCHANGED <<vocabulary_file, prompt, vocabulary, word, words,
                   masked_word, game_over, wrong_guesses, indices, screen,
                   turns,
                   guessed>>

\* most_common_letter(words, masked_word) raises IndexError.
MostCommonLetterRaises ==
    /\ pc = "call"
    /\ RemainingCounts(words, masked_word) = <<>>
    /\ pc' = "IndexError"
    /\ UNCHANGED <<vocabulary_file, prompt, vocabulary, word, words,
                   masked_word, game_over, wrong_guesses, letter, indices,
                   screen, turns,
                   guessed>>

GuessNext == MostCommonLetterReturns \/ MostCommonLetterRaises

SpecGuess == GuessInit /\ [][GuessNext]_vars

-----------------------------------------------------------------------------
(* filter_by_excluded_letter on its own: the function applied, and applied  *)
(* again to its result, for every word list and letter within the bounds.  *)
(* vocabulary keeps the list the function was first handed.                *)

FilterInit ==
    /\ words \in SeqsUpTo(FnWords, MaxFnWords)
    /\ vocabulary = words
    /\ letter \in FnLetters
    /\ pc = "filter"
    /\ vocabulary_file = <<>>
    /\ prompt = None
    /\ word = <<>>
    /\ masked_word = <<>>
    /\ game_over = None
    /\ wrong_guesses = 0
    /\ indices = <<>>
    /\ screen = <<>>
    /\ turns = 0
    /\ guessed = <<>>

\* words = filter_by_excluded_letter(words, letter)
ExcludeLetter ==
    /\ pc = "filter"
    /\ words' = filter_by_excluded_letter(words, letter)
    /\ pc' = "excluded"
    /\ UNCHANGED <<vocabulary_file, prompt, vocabulary, word, masked_word,
                   game_over, wrong_guesses, letter, indices, screen, turns,
                   guessed>>

\* The same call on the result of the first.
ExcludeLetterAgain ==
    /\ pc = "excluded"
    /\ words' = filter_by_excluded_letter(words, letter)
    /\ pc' = "excluded_again"
    /\ UNCHANGED <<vocabulary_file, prompt, vocabulary, word, masked_word,
                   game_over, wrong_guesses, letter, indices, screen, turns,
                   guessed>>

FilterNext == ExcludeLetter \/ ExcludeLetterAgain

SpecFilter == FilterInit /\ [][FilterNext]_vars

-----------------------------------------------------------------------------
(* The properties.                                                         *)

MaxWrong == Len(HANGMEN) - 1

LettersOf(ws) == UNION { Range(w) : w \in Range(ws) }

\* The letters of all the words a vocabulary file of the model can hold.
Alphabet ==
    LettersOf(read_vocabuary_file(OpeningLines \o SharedOpeningLines))
        \cup UNION { Range(lower(rstrip(l))) : l \in FileLines }

InLoop == pc \in {"guess", "ask_indices"}

Solved == game_over = FoundMessage

Failed == game_over = GameOverMessage

\* The vocabulary words of the secret word's length: the candidates the
\* game starts with.
FirstCandidates == filter_by_word_size(vocabulary, Len(word))

\* s is an order-preserving subsequence of t.
RECURSIVE IsSubsequence(_, _)
IsSubsequence(s, t) ==
    IF s = <<>> THEN TRUE
    ELSE IF t = <<>> THEN FALSE
    ELSE IF Head(s) = Head(t) THEN IsSubsequence(Tail(s), Tail(t))
    ELSE IsSubsequence(s, Tail(t))

\* C1: once a secret word from the vocabulary is accepted, the secret word
\* is a member of the candidate list, after the set-up and after every turn
\* (every accepted feedback is the true list of positions).
SecretStaysCandidate ==
    (pc \notin {"read", "ask_word"} /\ word \in Range(vocabulary))
        => word \in Range(words)

\* C1 happens: after a turn that found the letter and a turn that did not,
\* the game goes on with the secret among fewer candidates than at first.
SecretStaysCandidateWitness ==
    /\ pc = "guess"
    /\ wrong_guesses >= 1
    /\ turns > wrong_guesses
    /\ word \in Range(vocabulary)
    /\ word \in Range(words)
    /\ Len(words) < Len(FirstCandidates)

\* C2: with a secret word of at least one letter from the vocabulary,
\* play_hangman never aborts in the loop, and the loop makes at most
\* (letters of the alphabet) + (maximum of wrong guesses) turns, at which
\* point it has ended Solved or Failed.
GameEndsWithinBound ==
    (word # <<>> /\ word \in Range(vocabulary)) =>
        /\ pc # "IndexError"
        /\ turns <= Cardinality(Alphabet) + MaxWrong
        /\ (turns = Cardinality(Alphabet) + MaxWrong => pc = "done")

\* C3: a wrong-guess counter at or over the maximum means Failed, whatever
\* the number of candidates left, and Solved means a counter below it.
FailurePrecedesSuccess ==
    /\ wrong_guesses >= MaxWrong => (Failed /\ pc = "done")
    /\ Solved => wrong_guesses < MaxWrong

\* C3 happens: the game has Failed on a wrong guess that left one candidate.
FailurePrecedesSuccessWitness ==
    /\ Failed
    /\ indices = <<>>
    /\ wrong_guesses = MaxWrong
    /\ Len(words) = 1

\* C4: in Solved the masked word is the one candidate left, which is the
\* secret word, and holds no placeholder.
SolvedShowsSecret ==
    Solved =>
        /\ Len(words) = 1
        /\ masked_word = words[1]
        /\ masked_word = word
        /\ Placeholder \notin Range(masked_word)

\* C4 happens: the game is Solved after fewer turns that found a letter than
\* the secret word has letters, so the guesses alone did not reveal it.
SolvedShowsSecretWitness ==
    /\ Solved
    /\ turns - wrong_guesses < Cardinality(Range(word))

\* C5: in every step of the loop the new candidate list is an
\* order-preserving subsequence of the old one, and so no longer.
CandidatesNeverGrow ==
    [][InLoop => (IsSubsequence(words', words) /\ Len(words') <= Len(words))]_vars

\* C5 happens: a turn that found the letter and a turn that did not have
\* both passed and the candidates are fewer than at first.
CandidatesNeverGrowWitness ==
    /\ pc \in {"guess", "done"}
    /\ wrong_guesses >= 1
    /\ turns > wrong_guesses
    /\ Len(indices) = 2
    /\ Len(words) < Len(FirstCandidates)

\* C6: the wrong-guess counter is 0 when the loop is entered; a turn adds
\* exactly 1 to it when the letter is reported absent and leaves it as it is
\* when the letter is reported present; no step decreases it.
WrongGuessesCount ==
    [][/\ (pc = "ask_word" /\ pc' = "guess") => wrong_guesses' = 0
       /\ (turns' = turns + 1 /\ indices' = <<>>)
             => wrong_guesses' = wrong_guesses + 1
       /\ (turns' = turns + 1 /\ indices' # <<>>)
             => wrong_guesses' = wrong_guesses
       /\ wrong_guesses' >= wrong_guesses]_vars

\* C6 happens: turns of both kinds have passed.
WrongGuessesCountWitness ==
    /\ pc = "guess"
    /\ wrong_guesses >= 2
    /\ turns > wrong_guesses

\* The letters of a word list that a masked word does not show.
Unrevealed(ws, masked) == LettersOf(ws) \ Range(masked)

\* How often a letter occurs in a word list, every occurrence counted.
Occurrences(ws, c) ==
    Cardinality({ i \in 1..Len(Flatten(ws)) : Flatten(ws)[i] = c })

\* Where a letter first occurs when the words are read one after the other.
FirstSeen(ws, c) ==
    CHOOSE i \in 1..Len(Flatten(ws)) :
        /\ Flatten(ws)[i] = c
        /\ \A j \in 1..(i - 1) : Flatten(ws)[j] # c

\* C7: a letter that most_common_letter returns occurs in a word of the
\* list and nowhere in the masked word.
GuessIsUnrevealedLetter ==
    pc = "returned" =>
        /\ letter \in LettersOf(words)
        /\ letter \notin Range(masked_word)

\* C7 happens: most_common_letter has returned although the masked word
\* shows the most common letter of the list.
GuessIsUnrevealedLetterWitness ==
    /\ pc = "returned"
    /\ most_common(get_char_frequency(words))[1][1] \in Range(masked_word)

\* C8: the letter most_common_letter returns has the most occurrences among
\* the letters the masked word does not show, and of the letters with that
\* many occurrences it is the one seen first in the words; on cat, car, can,
\* cap the guesses are c, then a, then t.
GuessIsMostCommonFirstSeen ==
    pc = "returned" =>
        /\ letter \in Unrevealed(words, masked_word)
        /\ \A x \in Unrevealed(words, masked_word) \ {letter} :
              \/ Occurrences(words, x) < Occurrences(words, letter)
              \/ /\ Occurrences(words, x) = Occurrences(words, letter)
                 /\ FirstSeen(words, letter) < FirstSeen(words, x)
        /\ (words = CatWords /\ masked_word = <<"_", "_", "_">>) => letter = "c"
        /\ (words = CatWords /\ masked_word = <<"c", "_", "_">>) => letter = "a"
        /\ (words = CatWords /\ masked_word = <<"c", "a", "_">>) => letter = "t"

\* C8 happens: the returned letter occurs twice in one word and another
\* letter that is not shown occurs as often in the list.
GuessIsMostCommonFirstSeenWitness ==
    /\ pc = "returned"
    /\ \E w \in Range(words) : Occurrences(<<w>>, letter) = 2
    /\ \E x \in Unrevealed(words, masked_word) \ {letter} :
          Occurrences(words, x) = Occurrences(words, letter)

\* C9 as claimed: whenever the loop is about to guess with the counter below
\* the maximum, the candidates are not exactly one word.
NeverGuessesWithOneCandidate ==
    (pc = "guess" /\ wrong_guesses < MaxWrong) => Len(words) # 1

\* C9 amended: after a turn, one candidate with the counter below the
\* maximum means Solved, so the loop guesses with exactly one candidate only
\* on its first turn.
OneCandidateAfterTurnIsSolved ==
    /\ (turns >= 1 /\ wrong_guesses < MaxWrong /\ Len(words) = 1) => Solved
    /\ (pc = "guess" /\ Len(words) = 1) => turns = 0

\* C9 happens: a game is Solved in its third turn or later, having gone on
\* with more than one candidate before.
OneCandidateAfterTurnIsSolvedWitness ==
    /\ Solved
    /\ turns >= 3
    /\ Len(FirstCandidates) > 1

\* C10: the word the first prompt accepted is a member of the vocabulary.
AcceptedWordIsInVocabulary ==
    pc \notin {"read", "ask_word"} => word \in Range(vocabulary)

\* C11: a step from the indices prompt either accepts a reply, and then the
\* accepted index list is the list of the true positions of the guessed
\* letter in the secret word (empty only if the letter is not in it), or
\* rejects it, and then the program is still at the prompt, which now reads
\* "Invalid input. Try again", with the masked word, the candidates and the
\* wrong-guess counter unchanged.
FeedbackIsValidated ==
    [][pc = "ask_indices" =>
         IF turns' = turns + 1
         THEN /\ indices' = IndicesOf(word, letter)
              /\ \A i \in 0..(Len(word) - 1) :
                    (word[i + 1] = letter) <=> (i \in Range(indices'))
              /\ (indices' = <<>>) <=> (letter \notin Range(word))
         ELSE /\ pc' = "ask_indices"
              /\ prompt' = InvalidPrompt
              /\ masked_word' = masked_word
              /\ words' = words
              /\ wrong_guesses' = wrong_guesses
              /\ game_over' = None]_vars

\* C11 happens: after accepted replies of both kinds, a reply to the next
\* prompt has been rejected.
FeedbackIsValidatedWitness ==
    /\ pc = "ask_indices"
    /\ prompt = InvalidPrompt
    /\ turns >= 2
    /\ indices # <<>>
    /\ wrong_guesses >= 1

\* How often a word occurs in a word list.
Copies(ws, w) == Cardinality({ i \in 1..Len(ws) : ws[i] = w })

\* The list after holds, in the order of the list before, exactly the words
\* of the list before that Keep holds of.
KeptExactly(after, before, Keep(_)) ==
    /\ IsSubsequence(after, before)
    /\ \A w \in Range(before) :
          Copies(after, w) = IF Keep(w) THEN Copies(before, w) ELSE 0

\* C12: a turn in which the letter is reported present keeps, in their
\* order, exactly the candidates that have the letter at every reported
\* index, whatever they have at the other indices.
KnownLetterKeepsMatchingWords ==
    [][(pc = "ask_indices" /\ turns' = turns + 1 /\ indices' # <<>>) =>
          KeptExactly(words', words,
              LAMBDA w : \A k \in 1..Len(indices') : w[indices'[k] + 1] = letter)]_vars

\* C12 happens: after a turn in which the letter was reported present, a
\* candidate has the letter at a position the masked word does not show.
KnownLetterKeepsMatchingWordsWitness ==
    /\ pc = "guess"
    /\ indices # <<>>
    /\ \E w \in Range(words) : \E i \in 1..Len(w) :
          w[i] = letter /\ masked_word[i] = Placeholder

\* C13: filter_by_excluded_letter returns, in their order, exactly the
\* words that do not contain the letter, and applied to its own result it
\* returns that result.
ExcludedLetterIsIdempotent ==
    /\ [](pc \in {"excluded", "excluded_again"} =>
            KeptExactly(words, vocabulary, LAMBDA w : letter \notin Range(w)))
    /\ [][pc = "excluded" => words' = words]_vars

\* C13 happens: the function has been applied twice to a list of which it
\* drops a word and keeps a word.
ExcludedLetterIsIdempotentWitness ==
    /\ pc = "excluded_again"
    /\ words # <<>>
    /\ Len(words) < Len(vocabulary)

\* C14 as claimed: every turn in which the letter is reported absent leaves
\* the masked word as it was, and so does the turn that ends the game Failed.
AbsentTurnKeepsMaskedWord ==
    [][(pc = "ask_indices" /\ turns' = turns + 1
            /\ (indices' = <<>> \/ game_over' = GameOverMessage))
          => masked_word' = masked_word]_vars

\* C14 amended: a turn in which the letter is reported absent leaves the
\* masked word as it was unless the turn ends the game Solved; the turn that
\* ends the game Failed is such a turn, and in Failed the masked word still
\* holds a placeholder and is neither the secret word nor a candidate.
FailedKeepsMaskedWord ==
    /\ [][(pc = "ask_indices" /\ turns' = turns + 1) =>
            /\ (indices' = <<>> /\ game_over' # FoundMessage)
                  => masked_word' = masked_word
            /\ game_over' = GameOverMessage
                  => (indices' = <<>> /\ masked_word' = masked_word)]_vars
    /\ [](Failed =>
            /\ Placeholder \in Range(masked_word)
            /\ masked_word # word
            /\ masked_word \notin Range(words))

\* C14 happens: the game has Failed with one candidate left and a masked
\* word that shows some letters and not others.
FailedKeepsMaskedWordWitness ==
    /\ Failed
    /\ Len(words) = 1
    /\ Placeholder \in Range(masked_word)
    /\ Range(masked_word) # {Placeholder}

\* A word list without the later copies of its words.
RECURSIVE Deduplicated(_)
Deduplicated(ws) ==
    IF ws = <<>> THEN <<>>
    ELSE LET d == Deduplicated(Front(ws))
         IN  IF Last(ws) \in Range(d) THEN d ELSE Append(d, Last(ws))

\* How the game of this behaviour has ended.
Outcome == IF pc = "IndexError" THEN "IndexError" ELSE game_over

\* The run of the loop as a function agrees with the run of the loop in
\* steps.
PlayOutcomeIsOutcome ==
    pc \in {"done", "IndexError"} => Outcome = PlayOutcome(vocabulary, word)

\* C15, in the case it names: a game whose secret word appears more than
\* once in the vocabulary ends as the game with the same secret word on the
\* vocabulary without its duplicates ends.
DuplicatesAreIrrelevant ==
    (pc \in {"done", "IndexError"} /\ Copies(vocabulary, word) > 1) =>
        Outcome = PlayOutcome(Deduplicated(vocabulary), word)

\* C16: with a secret word of at least one letter, whenever the loop is
\* about to guess with more than one candidate, some letter of a candidate
\* is not in the masked word, and most_common_letter does not raise
\* IndexError on such a state.
NextGuessIsDefined ==
    /\ (pc = "guess" /\ word # <<>> /\ Len(words) > 1) =>
          Unrevealed(words, masked_word) # {}
    /\ (pc = "IndexError" /\ word # <<>> /\ Len(words) > 1) => FALSE

\* C17: the masked word is as long as the secret word and shows, at every
\* position, the placeholder or the letter of the secret word there; a
\* position that shows a letter shows that letter ever after.
MaskedWordShowsSecretLetters ==
    /\ [](/\ Len(masked_word) = Len(word)
          /\ \A i \in 1..Len(masked_word) :
                masked_word[i] \in {Placeholder, word[i]})
    /\ [][\A i \in 1..Len(masked_word) :
             masked_word[i] # Placeholder =>
                (i \in 1..Len(masked_word') /\ masked_word'[i] = masked_word[i])]_vars

\* C17 happens: the loop goes on after two turns with a masked word that
\* shows a letter at one position and the placeholder at another.
MaskedWordShowsSecretLettersWitness ==
    /\ pc = "guess"
    /\ turns >= 2
    /\ Placeholder \in Range(masked_word)
    /\ Range(masked_word) # {Placeholder}

\* The letters guessed in the turns made so far.
GuessedLetters == { guessed[i][1] : i \in 1..Len(guessed) }

\* The letters reported absent in the turns made so far.
AbsentLetters ==
    { guessed[i][1] : i \in { j \in 1..Len(guessed) : guessed[j][2] = <<>> } }

\* C18: the letters of the turns of a game are pairwise different, and the
\* letter the loop asks about is none of the letters of the earlier turns.
NoLetterGuessedTwice ==
    /\ \A i, j \in 1..Len(guessed) : i # j => guessed[i][1] # guessed[j][1]
    /\ pc = "ask_indices" => letter \notin GuessedLetters

\* C18 happens: the loop asks about a letter after turns that found their
\* letter and turns that did not.
NoLetterGuessedTwiceWitness ==
    /\ pc = "ask_indices"
    /\ Len(guessed) >= 3
    /\ AbsentLetters # {}
    /\ AbsentLetters # GuessedLetters

\* C19: the wrong-guess counter is between 0 and 6, every screen shown
\* indexes HANGMEN with it, and it is 6 in Failed and below 6 in the loop
\* and in Solved.
WrongGuessesInRange ==
    /\ wrong_guesses \in 0..(Len(HANGMEN) - 1)
    /\ pc \in {"guess", "ask_indices", "done", "IndexError"} =>
          (screen.hangman = HANGMEN[wrong_guesses + 1] /\ screen.hangman # -1)
    /\ Failed => wrong_guesses = Len(HANGMEN) - 1
    /\ (InLoop \/ Solved) => wrong_guesses < Len(HANGMEN) - 1

\* C19 happens: the game has Failed and the screen shows the last drawing.
WrongGuessesInRangeWitness ==
    /\ Failed
    /\ wrong_guesses = 6
    /\ screen.hangman = HANGMEN[7]
    /\ screen.message = GameOverMessage

\* C20: in the loop every candidate is as long as the secret word, has the
\* letter the masked word shows at every position where it shows one, and
\* holds no letter that was reported absent.
CandidatesFitFeedback ==
    InLoop =>
        \A w \in Range(words) :
            /\ Len(w) = Len(word)
            /\ \A i \in 1..Len(masked_word) :
                  masked_word[i] # Placeholder => w[i] = masked_word[i]
            /\ Range(w) \cap AbsentLetters = {}

\* C20 happens: the loop goes on with more than one candidate after a turn
\* that found its letter and a turn that did not, in a game whose vocabulary
\* has a word of another length.
CandidatesFitFeedbackWitness ==
    /\ pc = "guess"
    /\ Len(words) > 1
    /\ Range(masked_word) # {Placeholder}
    /\ AbsentLetters # {}
    /\ Len(FirstCandidates) < Len(vocabulary)

=============================================================================
